---- MODULE Spec2Model ----
(***************************************************************************)
(* The AUMSecurity front-end as a state machine: the session held by App   *)
(* (React state, localStorage, the axios default header), the route table, *)
(* the Login view and the Dashboard view with its enrollment form, and the *)
(* HTTP requests that are in flight between the client and the API.        *)
(*                                                                         *)
(* One action is one run of JavaScript to completion: an event handler, or *)
(* the continuation of an async function after its await, followed by the  *)
(* render React commits for the state it set and the effects of that       *)
(* render.                                                                 *)
(***************************************************************************)
EXTENDS Integers, Sequences, FiniteSets, Bags, TLC

VARIABLES
    localStorage,   \* the 'token' and 'role' entries of window.localStorage
    token,          \* App: useState token
    role,           \* App: useState role
    Authorization,  \* axios.defaults.headers.common['Authorization']
    path,           \* the router's location
    view,           \* the component the matched route has mounted
    error,          \* Login: useState error
    persons,        \* Dashboard: useState persons
    events,         \* Dashboard: useState events
    form,           \* Dashboard: useState form
    file,           \* Dashboard: useState file
    message,        \* Dashboard: useState message
    loading,        \* Dashboard: useState loading
    pending,        \* the awaits not yet resumed: a bag of [kind, live, lo]
    server,         \* number of persons the API holds
    issued          \* history: the HTTP requests the last step sent

vars == << localStorage, token, role, Authorization, path, view, error,
           persons, events, form, file, message, loading, pending, server,
           issued >>

-----------------------------------------------------------------------------
(* Values *)

\* JavaScript null / undefined / a deleted key.
NULL == "<null>"

\* Bounds of the model.
MaxPending == 3      \* requests in flight at once
MaxRoster == 1       \* persons the API can come to hold
RedirectFuel == 2    \* <Navigate> hops followed in one render

\* The bodies POST /token can answer with.
Accounts ==
    { [access_token |-> "abc", role |-> "operator"],
      [access_token |-> "xyz", role |-> "admin"] }
Paths == {"/", "/login", "/dashboard"}

\* The values the operator gives the inputs; Contact is left empty.
Names == {"", "Jane Doe"}
Categories == {"Family", "Temporary"}
Expiries == {"", "2030-01-01"}
Contacts == {""}
FileLists == {<<>>, <<"photo.jpg">>}
EventLogs == {<<>>, <<1>>}
ServerMessages == {"enrolled"}
ServerDetails == {NULL, "No face detected"}

\* JavaScript truthiness of a string-or-null value.
Truthy(s) == s # NULL /\ s # ""

\* The template literal `Bearer ${t}`.
Bearer(t) == "Bearer " \o (IF t = NULL THEN "null" ELSE t)

\* The list of persons 1..n, as GET /persons returns it.
Roster(n) == IF n = 0 THEN <<>> ELSE [i \in 1..n |-> i]

-----------------------------------------------------------------------------
(* App: the session store *)

\* App starting with the token read from storage and no role.
App_forgetsRole(ls) ==
    [ token |-> ls.token, role |-> NULL, localStorage |-> ls,
      Authorization |-> NULL ]

\* useState(localStorage.getItem(..)) on a fresh page: the axios module is
\* fresh too, so no default header is set.
App(ls) ==
    [ token |-> ls.token, role |-> ls.role, localStorage |-> ls,
      Authorization |-> NULL ]

\* The session store as it stands.
Session ==
    [ token |-> token, role |-> role, localStorage |-> localStorage,
      Authorization |-> Authorization ]

\* login without its last line: the default header is not armed.
login_noHeader(newToken, newRole) ==
    [ token |-> newToken, role |-> newRole,
      localStorage |-> [token |-> newToken, role |-> newRole],
      Authorization |-> Authorization ]

\* login without setToken and setRole: only the storage and the header.
login_noState(newToken, newRole) ==
    [ token |-> token, role |-> role,
      localStorage |-> [token |-> newToken, role |-> newRole],
      Authorization |-> Bearer(newToken) ]

login(newToken, newRole) ==
    [ token |-> newToken, role |-> newRole,
      localStorage |-> [token |-> newToken, role |-> newRole],
      Authorization |-> Bearer(newToken) ]

\* logout without setRole(null).
logout_keepsRole ==
    [ token |-> NULL, role |-> role,
      localStorage |-> [token |-> NULL, role |-> NULL],
      Authorization |-> NULL ]

\* logout without the delete of the default header.
logout_keepsHeader ==
    [ token |-> NULL, role |-> NULL,
      localStorage |-> [token |-> NULL, role |-> NULL],
      Authorization |-> Authorization ]

\* logout without setToken(null).
logout_keepsToken ==
    [ token |-> token, role |-> NULL,
      localStorage |-> [token |-> NULL, role |-> NULL],
      Authorization |-> NULL ]

logout ==
    [ token |-> NULL, role |-> NULL,
      localStorage |-> [token |-> NULL, role |-> NULL],
      Authorization |-> NULL ]

\* What localStorage can hold when a page loads: only login and logout
\* write it, each in one run of JavaScript.
StorageStates ==
    { [token |-> NULL, role |-> NULL] } \cup
    { [token |-> a.access_token, role |-> a.role] : a \in Accounts }

-----------------------------------------------------------------------------
(* App: the route table *)

Element(name) == [kind |-> "view", to |-> name]
Navigate(to) == [kind |-> "redirect", to |-> to]

\* The route table with /login rendering the Login view unguarded.
Route_loginUnguarded(p, tok) ==
    CASE p = "/login" -> Element("Login")
      [] p = "/dashboard" ->
           IF Truthy(tok) THEN Element("Dashboard") ELSE Navigate("/login")
      [] p = "/" ->
           Navigate(IF Truthy(tok) THEN "/dashboard" ELSE "/login")

\* The element the matched <Route> renders for the location p.
Route(p, tok) ==
    CASE p = "/login" ->
           IF ~Truthy(tok) THEN Element("Login") ELSE Navigate("/dashboard")
      [] p = "/dashboard" ->
           IF Truthy(tok) THEN Element("Dashboard") ELSE Navigate("/login")
      [] p = "/" ->
           Navigate(IF Truthy(tok) THEN "/dashboard" ELSE "/login")

\* Follow <Navigate> elements until a view is rendered.
RECURSIVE Settle(_, _, _)
Settle(p, tok, fuel) ==
    LET r == Route(p, tok) IN
    IF r.kind = "view" THEN [path |-> p, view |-> r.to]
    ELSE IF fuel = 0 THEN [path |-> p, view |-> "none"]
    ELSE Settle(r.to, tok, fuel - 1)

-----------------------------------------------------------------------------
(* Requests *)

NoBody == [none |-> TRUE]

\* An HTTP request as axios sends it; auth is its Authorization header.
Request(kind, auth, body) == [kind |-> kind, auth |-> auth, body |-> body]

\* axios.post('/token', ..): only the default headers.
exchangeCredentials(auth) == Request("token", auth, NoBody)

\* axios.get('/persons'), axios.get('/events'): only the default headers.
fetchPersons(auth) == Request("persons", auth, NoBody)
fetchEvents(auth) == Request("events", auth, NoBody)

\* The FormData handleEnroll builds.
FormData(f, fl) ==
    [ name |-> f.name, category |-> f.category,
      expiry |-> IF Truthy(f.expiry) THEN f.expiry ELSE NULL,
      contact |-> IF Truthy(f.contact) THEN f.contact ELSE NULL,
      file |-> fl ]

\* axios.post('/enroll', formData, {headers: {Authorization: `Bearer ${token}`}})
submitEnrollment(tok, f, fl) == Request("enroll", Bearer(tok), FormData(f, fl))

\* The await of a request sent: live says whether the component that awaits
\* is still mounted, lo is the roster size of the API when the request left.
Await(req, live, lo) ==
    [kind |-> req.kind, live |-> live,
     lo |-> IF req.kind = "persons" THEN lo ELSE 0]

\* After its await, fetchPersons and fetchEvents only set the state of their
\* component or log; handleSubmit and handleEnroll also call login, navigate
\* and fetchPersons, whether their component is mounted or not.
ActsUnmounted(kind) == kind \in {"token", "enroll"}

\* The awaits of the requests reqs, added to the bag b. The await of an
\* unmounted component that can change nothing when it resumes is not kept.
RECURSIVE Sent(_, _, _, _)
Sent(b, reqs, live, lo) ==
    IF reqs = <<>> THEN b
    ELSE Sent(IF live \/ ActsUnmounted(Head(reqs).kind)
                THEN b (+) SetToBag({Await(Head(reqs), live, lo)})
                ELSE b,
              Tail(reqs), live, lo)

\* An unmount after which the continuations still update the page, as they
\* would with the state kept outside the component.
Orphan_stillLive(b) == b

\* The awaits left when the mounted view is unmounted: React drops the state
\* updates of their continuations.
Orphan(b) ==
    LET dead(w) == [w EXCEPT !.live = FALSE] IN
    [ w \in {dead(v) : v \in {u \in DOMAIN b : ActsUnmounted(u.kind)}} |->
        CopiesIn(w, b) + CopiesIn([w EXCEPT !.live = TRUE], b) ]

\* The bag b without one copy of w.
Resumed(b, w) == b (-) SetToBag({w})

-----------------------------------------------------------------------------
(* Dashboard: local state and handlers *)

FormDefault == [name |-> "", category |-> "Family", expiry |-> "", contact |-> ""]

\* The useState initial values of a mounted Dashboard.
Dashboard ==
    [ persons |-> <<>>, events |-> <<>>, form |-> FormDefault, file |-> NULL,
      message |-> "", loading |-> FALSE ]

\* The local state of the Dashboard as it stands.
DashState ==
    [ persons |-> persons, events |-> events, form |-> form, file |-> file,
      message |-> message, loading |-> loading ]

\* useEffect(.., [token, navigate]): the requests it sends.
useEffect(auth) == << fetchPersons(auth), fetchEvents(auth) >>

handleInputChange(d, name, value) == [d EXCEPT !.form[name] = value]

\* e.target.files is a FileList; files[0] of an empty one is undefined.
handleFileChange(d, files) ==
    [d EXCEPT !.file = IF Len(files) = 0 THEN NULL ELSE files[1]]

\* The submit button without its disabled attribute.
SubmitNeverDisabled(d) == FALSE

\* <button type="submit" disabled={loading}>
SubmitDisabled(d) == d.loading

\* handleEnroll without its first line, the check of file.
handleEnroll_noFileCheck(d, tok) ==
    [ d |-> [d EXCEPT !.loading = TRUE, !.message = ""],
      out |-> << submitEnrollment(tok, d.form, d.file) >> ]

\* handleEnroll re-fetching the roster along with the POST, before its await.
handleEnroll_refreshesEarly(d, tok) ==
    IF ~Truthy(d.file)
    THEN [ d |-> [d EXCEPT !.message = "Please select an image file"],
           out |-> <<>> ]
    ELSE [ d |-> [d EXCEPT !.loading = TRUE, !.message = ""],
           out |-> << submitEnrollment(tok, d.form, d.file),
                      fetchPersons(Authorization) >> ]

\* handleEnroll up to its await: the new local state and the request sent.
handleEnroll(d, tok) ==
    IF ~Truthy(d.file)
    THEN [ d |-> [d EXCEPT !.message = "Please select an image file"],
           out |-> <<>> ]
    ELSE [ d |-> [d EXCEPT !.loading = TRUE, !.message = ""],
           out |-> << submitEnrollment(tok, d.form, d.file) >> ]

\* The success path without setFile(null).
enrollFulfilled_keepsFile(d, msg) ==
    [d EXCEPT !.message = msg, !.form = FormDefault, !.loading = FALSE]

\* handleEnroll after its await, the request fulfilled with {message}.
enrollFulfilled(d, msg) ==
    [d EXCEPT !.message = msg, !.form = FormDefault, !.file = NULL,
              !.loading = FALSE]

\* The catch block resetting the form as the success path does.
enrollRejected_clearsForm(d, detail) ==
    [d EXCEPT !.message =
                  "Error: " \o (IF Truthy(detail) THEN detail ELSE "Enrollment failed"),
              !.form = FormDefault,
              !.loading = FALSE]

\* The rejection path without the finally block.
enrollRejected_noFinally(d, detail) ==
    [d EXCEPT !.message = "Error: " \o (IF Truthy(detail) THEN detail
                                         ELSE "Enrollment failed")]

\* handleEnroll after its await, the request rejected with an optional detail.
enrollRejected(d, detail) ==
    [d EXCEPT !.message =
                  "Error: " \o (IF Truthy(detail) THEN detail ELSE "Enrollment failed"),
              !.loading = FALSE]

\* The catch block of a fetch that also empties the lists.
fetchRejected_clearsLists(d) == [d EXCEPT !.persons = <<>>, !.events = <<>>]

\* fetchPersons / fetchEvents after the await, rejected: console.error only.
fetchRejected(d) == d

-----------------------------------------------------------------------------
(* Login: local state and handlers *)

\* The catch block of handleSubmit without its setError.
submitRejected_silent(e) == e

\* Login.handleSubmit after its await, rejected: setError('Invalid credentials').
submitRejected(e) == "Invalid credentials"

-----------------------------------------------------------------------------
(* Rendering *)

\* The render React commits after a run of JavaScript, and its effects.
\*   oldView, oldTok  the mounted view and the token before the run
\*   p, tok, auth     the location, token and default header after it
\*   d, e             the local state the run left in Dashboard and Login
\*   b                the awaits left, those of the run's requests included
\*   out              the requests the run sent
\*   srv              the roster size of the API
Render(oldView, oldTok, p, tok, auth, d, e, b, out, srv) ==
    LET s      == Settle(p, tok, RedirectFuel)
        keep   == Route(p, tok) = Element(oldView)
        left   == IF keep THEN b ELSE Orphan(b)
        effect == s.view = "Dashboard" /\ (~keep \/ tok # oldTok)
        fx     == IF effect THEN useEffect(auth) ELSE <<>>
        bounce == effect /\ ~Truthy(tok)   \* if (!token) navigate('/login')
        s2     == IF bounce THEN Settle("/login", tok, RedirectFuel) ELSE s
        all    == Sent(left, fx, TRUE, srv)
    IN  [ path    |-> s2.path,
          view    |-> s2.view,
          dash    |-> IF s2.view = "Dashboard" /\ keep /\ ~bounce THEN d ELSE Dashboard,
          error   |-> IF s2.view = "Login" /\ keep THEN e ELSE "",
          pending |-> IF bounce THEN Orphan(all) ELSE all,
          issued  |-> out \o fx ]

\* The state a step leaves: the session store a, the rendered page ui.
Commit(a, ui, srv) ==
    /\ BagCardinality(ui.pending) <= MaxPending
    /\ token' = a.token
    /\ role' = a.role
    /\ localStorage' = a.localStorage
    /\ Authorization' = a.Authorization
    /\ path' = ui.path
    /\ view' = ui.view
    /\ error' = ui.error
    /\ persons' = ui.dash.persons
    /\ events' = ui.dash.events
    /\ form' = ui.dash.form
    /\ file' = ui.dash.file
    /\ message' = ui.dash.message
    /\ loading' = ui.dash.loading
    /\ pending' = ui.pending
    /\ issued' = ui.issued
    /\ server' = srv

\* The page as it stands, after a run that set the local state d and e,
\* left the awaits b and sent out.
Same(d, e, b, out) ==
    Render(view, token, path, token, Authorization, d, e, b, out, server)

-----------------------------------------------------------------------------
(* The state machine *)

\* The page loaded at location p over the storage ls.
Loaded(ls, p, srv) ==
    LET a == App(ls) IN
    [ app |-> a,
      ui  |-> Render("none", NULL, p, a.token, a.Authorization,
                     Dashboard, "", EmptyBag, <<>>, srv) ]

Init ==
    \E ls \in StorageStates, p \in Paths :
        LET l == Loaded(ls, p, 0) IN
        /\ token = l.app.token
        /\ role = l.app.role
        /\ localStorage = l.app.localStorage
        /\ Authorization = l.app.Authorization
        /\ path = l.ui.path
        /\ view = l.ui.view
        /\ error = l.ui.error
        /\ persons = l.ui.dash.persons
        /\ events = l.ui.dash.events
        /\ form = l.ui.dash.form
        /\ file = l.ui.dash.file
        /\ message = l.ui.dash.message
        /\ loading = l.ui.dash.loading
        /\ pending = l.ui.pending
        /\ issued = l.ui.issued
        /\ server = 0

\* The page is reloaded (or opened again) at p: every script state is lost,
\* localStorage is kept, the responses still owed are never delivered.
PageLoad ==
    \E p \in Paths :
        LET l == Loaded(localStorage, p, server) IN
        Commit(l.app, l.ui, server)

\* History navigation (back, forward) to another location, without a reload.
UserNavigate ==
    \E p \in Paths \ {path} :
        Commit(Session,
               Render(view, token, p, token, Authorization, DashState, error,
                      pending, <<>>, server),
               server)

\* Login.handleSubmit up to its await.
SubmitLogin ==
    /\ view = "Login"
    /\ LET out == << exchangeCredentials(Authorization) >> IN
       Commit(Session,
              Same(DashState, error, Sent(pending, out, TRUE, server), out),
              server)

\* Login.handleSubmit after its await w, fulfilled with data:
\* login(..) then navigate('/dashboard').
LoginFulfilled(w, data) ==
    /\ w.kind = "token"
    /\ LET a == login(data.access_token, data.role) IN
       Commit(a,
              Render(view, token, "/dashboard", a.token, a.Authorization,
                     DashState, error, Resumed(pending, w), <<>>, server),
              server)

TokenOk == \E w \in DOMAIN pending, data \in Accounts : LoginFulfilled(w, data)

\* Login.handleSubmit after its await w, rejected: setError(..).
LoginRejected(w) ==
    /\ w.kind = "token"
    /\ Commit(Session,
              Same(DashState,
                   IF w.live THEN submitRejected(error) ELSE error,
                   Resumed(pending, w), <<>>),
              server)

TokenFail == \E w \in DOMAIN pending : LoginRejected(w)

\* fetchPersons after its await w, fulfilled with the roster of k persons:
\* one the API held between the request and the response.
PersonsFulfilled(w, k) ==
    /\ w.kind = "persons"
    /\ k \in w.lo..server
    /\ Commit(Session,
              Same([DashState EXCEPT !.persons = Roster(k)],
                   error, Resumed(pending, w), <<>>),
              server)

PersonsOk == \E w \in DOMAIN pending, k \in 0..MaxRoster : PersonsFulfilled(w, k)

\* A fetch after its await w, rejected: console.error only.
FetchRejected(w) ==
    /\ w.kind \in {"persons", "events"}
    /\ Commit(Session,
              Same(fetchRejected(DashState), error, Resumed(pending, w), <<>>),
              server)

FetchFail == \E w \in DOMAIN pending : FetchRejected(w)

\* fetchEvents after its await w, fulfilled with the events ev.
EventsFulfilled(w, ev) ==
    /\ w.kind = "events"
    /\ Commit(Session,
              Same([DashState EXCEPT !.events = ev],
                   error, Resumed(pending, w), <<>>),
              server)

EventsOk == \E w \in DOMAIN pending, ev \in EventLogs : EventsFulfilled(w, ev)

\* A change event of the input or select called name.
InputChange ==
    /\ view = "Dashboard"
    /\ \E fv \in ({"name"} \X Names) \cup ({"category"} \X Categories)
                 \cup ({"expiry"} \X Expiries) \cup ({"contact"} \X Contacts) :
           /\ form[fv[1]] # fv[2]
           /\ Commit(Session,
                     Same(handleInputChange(DashState, fv[1], fv[2]), error,
                          pending, <<>>),
                     server)

\* A change event of the file input.
FileChange ==
    /\ view = "Dashboard"
    /\ \E files \in FileLists :
           Commit(Session,
                  Same(handleFileChange(DashState, files), error, pending, <<>>),
                  server)

\* A submit event of the form: handleEnroll up to its await. The required
\* attributes of the name and file inputs are checked by the host before it
\* fires the event, not by the handler, which checks file itself: the
\* handler is taken for every state of the form.
Enroll ==
    /\ view = "Dashboard"
    /\ ~SubmitDisabled(DashState)
    /\ LET h == handleEnroll(DashState, token) IN
       Commit(Session,
              Same(h.d, error, Sent(pending, h.out, TRUE, server), h.out),
              server)

\* handleEnroll after its await w, fulfilled with {message: msg}: the API has
\* stored the person.
EnrollFulfilled(w, msg) ==
    /\ w.kind = "enroll"
    /\ server < MaxRoster
    /\ LET out == << fetchPersons(Authorization) >> IN
       Commit(Session,
              Same(IF w.live THEN enrollFulfilled(DashState, msg) ELSE DashState,
                   error,
                   Sent(Resumed(pending, w), out, w.live, server + 1),
                   out),
              server + 1)

EnrollOk == \E w \in DOMAIN pending, msg \in ServerMessages : EnrollFulfilled(w, msg)

\* handleEnroll after its await w, rejected with an optional detail.
EnrollRejected(w, detail) ==
    /\ w.kind = "enroll"
    /\ Commit(Session,
              Same(IF w.live THEN enrollRejected(DashState, detail) ELSE DashState,
                   error, Resumed(pending, w), <<>>),
              server)

EnrollFail == \E w \in DOMAIN pending, detail \in ServerDetails : EnrollRejected(w, detail)

\* Dashboard.handleLogout: logout() then navigate('/login').
Logout ==
    /\ view = "Dashboard"
    /\ LET a == logout IN
       Commit(a,
              Render(view, token, "/login", a.token, a.Authorization,
                     DashState, error, pending, <<>>, server),
              server)

Next ==
    \/ PageLoad
    \/ UserNavigate
    \/ SubmitLogin
    \/ TokenOk
    \/ TokenFail
    \/ PersonsOk
    \/ FetchFail
    \/ EventsOk
    \/ InputChange
    \/ FileChange
    \/ Enroll
    \/ EnrollOk
    \/ EnrollFail
    \/ Logout

Spec == Init /\ [][Next]_vars

\* Every POST /enroll gets a response: the promise handleEnroll awaits is
\* settled by the network, and its continuation then runs on the event loop.
EnrollResponse == EnrollOk \/ EnrollFail

FairSpec == Spec /\ WF_vars(EnrollResponse)

-----------------------------------------------------------------------------
(* Claims *)

AuthenticatedKinds == {"persons", "events", "enroll"}

\* The live awaits of POST /enroll.
Submitting == CopiesIn([kind |-> "enroll", live |-> TRUE, lo |-> 0], pending)

\* C1: every GET /persons, GET /events and POST /enroll sent while a session
\* is current carries 'Bearer <token>' of that session, whether the session
\* came from login() or from localStorage at start-up.
C1_RequestsCarryCurrentToken ==
    \A i \in 1..Len(issued) :
        (issued[i].kind \in AuthenticatedKinds /\ Truthy(token))
            => issued[i].auth = "Bearer " \o token

\* C2: the in-memory token is present if and only if the in-memory role is.
C2_TokenIffRole == (token # NULL) <=> (role # NULL)

C2_Witness ==
    /\ token # NULL
    /\ role # NULL
    /\ Authorization = "Bearer " \o token
    /\ view = "Dashboard"

\* C3: after login(t, r), from any state, the session in memory is {t, r},
\* localStorage holds token = t and role = r, and the default Authorization
\* header is 'Bearer t'.
C3_LoginSetsSession ==
    [][ \A w \in DOMAIN pending, data \in Accounts :
            LoginFulfilled(w, data) =>
                /\ token' = data.access_token
                /\ role' = data.role
                /\ localStorage' = [token |-> data.access_token, role |-> data.role]
                /\ Authorization' = "Bearer " \o data.access_token ]_vars

\* A second login has replaced the session of a first one.
C3_Witness ==
    /\ token = "xyz"
    /\ role = "admin"
    /\ localStorage = [token |-> "xyz", role |-> "admin"]
    /\ Authorization = "Bearer xyz"
    /\ persons # <<>>

\* C4: after logout(), from any state, token and role are absent in memory,
\* both localStorage entries are removed, the default Authorization header is
\* removed, and no request has been sent.
C4_LogoutClearsSession ==
    [][ Logout =>
            /\ token' = NULL
            /\ role' = NULL
            /\ localStorage' = [token |-> NULL, role |-> NULL]
            /\ Authorization' = NULL
            /\ issued' = <<>> ]_vars

\* The Dashboard was left for the Login view with an enrollment in flight.
C4_Witness ==
    /\ view = "Login"
    /\ token = NULL
    /\ localStorage.token = NULL
    /\ Authorization = NULL
    /\ CopiesIn([kind |-> "enroll", live |-> FALSE, lo |-> 0], pending) > 0

\* C5: the Login view is rendered iff the location is /login and no session
\* is active, the Dashboard view iff the location is /dashboard and a session
\* is active; every other (location, session) pair redirects, / included.
C5_RouteGuard ==
    /\ \A tok \in {NULL} \cup {a.access_token : a \in Accounts} :
           /\ Route("/login", tok) =
                  IF tok = NULL THEN [kind |-> "view", to |-> "Login"]
                                ELSE [kind |-> "redirect", to |-> "/dashboard"]
           /\ Route("/dashboard", tok) =
                  IF tok # NULL THEN [kind |-> "view", to |-> "Dashboard"]
                                ELSE [kind |-> "redirect", to |-> "/login"]
           /\ Route("/", tok) =
                  [kind |-> "redirect",
                   to |-> IF tok # NULL THEN "/dashboard" ELSE "/login"]
    /\ view \in {"Login", "Dashboard"}
    /\ view = "Dashboard" <=> (path = "/dashboard" /\ token # NULL)
    /\ view = "Login" <=> (path = "/login" /\ token = NULL)

\* The Dashboard is shown after a reload over a stored session.
C5_Witness ==
    /\ view = "Dashboard"
    /\ path = "/dashboard"
    /\ token # NULL
    /\ Authorization = NULL

C7_OneEnrollmentInFlight ==
    /\ Submitting <= 1
    /\ Submitting = 1 => loading

C7_Witness ==
    /\ Submitting = 1
    /\ loading
    /\ view = "Dashboard"

\* C8: when the POST /enroll of the mounted form succeeds, the form fields
\* equal their defaults, no file is selected, the message is the server's
\* message, and exactly one request, a GET /persons, is sent.
C8_SuccessResetsForm ==
    [][ \A w \in DOMAIN pending, msg \in ServerMessages :
            EnrollFulfilled(w, msg) =>
                /\ Len(issued') = 1
                /\ issued'[1].kind = "persons"
                /\ w.live =>
                       /\ form' = [name |-> "", category |-> "Family",
                                   expiry |-> "", contact |-> ""]
                       /\ file' = NULL
                       /\ message' = msg ]_vars

\* The form right after a success: it had been filled in, and is reset.
C8_Witness ==
    /\ message = "enrolled"
    /\ form = [name |-> "", category |-> "Family", expiry |-> "", contact |-> ""]
    /\ file = NULL
    /\ ~loading
    /\ Len(issued) = 1
    /\ issued[1].kind = "persons"
    /\ server = 1

\* The submit events that end in a validation failure.
EnrollInvalid == Enroll /\ ~Truthy(file)

\* C9: a failed enrollment attempt (validation failure or rejected request)
\* changes no form field and not the file selection, sets an error message,
\* and leaves the persons and events snapshots unchanged.
C9_FailureKeepsForm ==
    [][ /\ EnrollInvalid =>
               /\ form' = form /\ file' = file
               /\ persons' = persons /\ events' = events
               /\ message' = "Please select an image file"
        /\ \A w \in DOMAIN pending, detail \in ServerDetails :
               (EnrollRejected(w, detail) /\ w.live) =>
                   /\ form' = form /\ file' = file
                   /\ persons' = persons /\ events' = events
                   /\ message' = IF detail = NULL
                                   THEN "Error: Enrollment failed"
                                   ELSE "Error: " \o detail ]_vars

\* A rejected enrollment has left the filled-in form as it was.
C9_Witness ==
    /\ message = "Error: Enrollment failed"
    /\ form = [name |-> "Jane Doe", category |-> "Temporary",
               expiry |-> "2030-01-01", contact |-> ""]
    /\ file = "photo.jpg"
    /\ ~loading
    /\ Submitting = 0

\* C10: a submission with no file selected sends no request, sets the message
\* to exactly "Please select an image file", does not enter the loading
\* state, and leaves the form fields unchanged.
C10_NoFileMessage ==
    [][ EnrollInvalid =>
            /\ issued' = <<>>
            /\ pending' = pending
            /\ message' = "Please select an image file"
            /\ loading = FALSE /\ loading' = FALSE
            /\ form' = form ]_vars

\* The message is shown over a filled-in form with no file selected.
C10_Witness ==
    /\ message = "Please select an image file"
    /\ file = NULL
    /\ form.name = "Jane Doe"
    /\ ~loading
    /\ issued = <<>>

\* C11: when a roster fetch or an event fetch fails, the persons and events
\* snapshots keep the value they had, the message is not changed, the session
\* is not changed, and nothing is sent.
C11_FetchFailureIsSilent ==
    [][ \A w \in DOMAIN pending :
            FetchRejected(w) =>
                /\ persons' = persons
                /\ events' = events
                /\ message' = message
                /\ form' = form /\ file' = file /\ loading' = loading
                /\ token' = token /\ role' = role
                /\ localStorage' = localStorage
                /\ Authorization' = Authorization
                /\ view' = view /\ path' = path
                /\ issued' = <<>> ]_vars

\* After an enrollment, the re-fetch has been answered and the roster is
\* still the empty one, beside a fetched events list.
C11_Witness ==
    /\ view = "Dashboard"
    /\ message = "enrolled"
    /\ server = 1
    /\ persons = <<>>
    /\ events = <<1>>
    /\ pending = EmptyBag
    /\ issued = <<>>

\* C12: when a credential exchange succeeds with {access_token: t, role: r},
\* the session becomes {t, r} in memory and in storage, and the client is
\* then on the dashboard path with the dashboard view rendered.
C12_LoginSuccessEntersDashboard ==
    [][ \A w \in DOMAIN pending, data \in Accounts :
            LoginFulfilled(w, data) =>
                /\ token' = data.access_token
                /\ role' = data.role
                /\ localStorage' = [token |-> data.access_token,
                                    role |-> data.role]
                /\ path' = "/dashboard"
                /\ Route(path', token') = Element("Dashboard")
                /\ view' = "Dashboard" ]_vars

\* The dashboard has just been entered by a login: its two fetches carry
\* the header that only login sets.
C12_Witness ==
    /\ view = "Dashboard"
    /\ path = "/dashboard"
    /\ token = "xyz" /\ role = "admin"
    /\ localStorage = [token |-> "xyz", role |-> "admin"]
    /\ Len(issued) = 2
    /\ \A i \in 1..2 : issued[i].auth = Bearer("xyz")

\* C13: when a credential exchange fails, the login view that submitted it
\* shows 'Invalid credentials'; the session (memory, storage, default
\* header) is not changed and the client stays where it is.
C13_LoginFailureShowsError ==
    [][ \A w \in DOMAIN pending :
            LoginRejected(w) =>
                /\ w.live => error' = "Invalid credentials" /\ view' = "Login"
                /\ token' = token /\ role' = role
                /\ localStorage' = localStorage
                /\ Authorization' = Authorization
                /\ view' = view /\ path' = path
                /\ issued' = <<>> ]_vars

\* The login view shows the error and nobody is logged in.
C13_Witness ==
    /\ view = "Login"
    /\ path = "/login"
    /\ error = "Invalid credentials"
    /\ token = NULL /\ localStorage.token = NULL /\ Authorization = NULL
    /\ pending = EmptyBag

\* C14: logout leaves the client logged out on the login view; while it is
\* logged out every navigation or reload, to the dashboard path included,
\* ends on the login view, and the only step that renders the dashboard
\* again is a credential exchange that succeeds.
C14_LoggedOutNeverSeesDashboard ==
    [][ /\ Logout => token' = NULL /\ view' = "Login" /\ path' = "/login"
        /\ (token = NULL /\ (UserNavigate \/ PageLoad))
               => token' = NULL /\ view' = "Login" /\ path' = "/login"
        /\ (token = NULL /\ view' = "Dashboard") => TokenOk ]_vars

\* Logged out after an enrollment was made on the dashboard, on the login
\* view, with nothing in flight.
C14_Witness ==
    /\ server = 1
    /\ token = NULL /\ localStorage.token = NULL
    /\ view = "Login"
    /\ path = "/login"
    /\ pending = EmptyBag
    /\ issued = <<>>

\* C15: a roster fetch issued after the latest enrollment (its re-fetch)
\* that is fulfilled leaves a roster holding the newly enrolled person, and
\* once the roster holds that person no response to a roster fetch issued
\* before the enrollment replaces it with a list that lacks the person.
C15_RefetchedRosterIsNotReplaced ==
    [][ \A w \in DOMAIN pending, k \in 0..MaxRoster :
            PersonsFulfilled(w, k) =>
                /\ w.lo = server => Len(persons') = server
                /\ (w.lo < server /\ Len(persons) = server)
                       => Len(persons') = server ]_vars

\* C16: loading is true only while a POST /enroll of the mounted form is in
\* flight; the response to it, fulfilled or rejected, sets loading to false;
\* and, every POST /enroll being answered, a form that is loading is
\* eventually not loading.
C16_SubmittingReturnsToIdle ==
    /\ [](loading => Submitting = 1)
    /\ [][ \A w \in DOMAIN pending :
               (/\ w.live
                /\ \/ \E msg \in ServerMessages : EnrollFulfilled(w, msg)
                   \/ \E detail \in ServerDetails : EnrollRejected(w, detail))
               => (loading /\ ~loading') ]_vars
    /\ (loading ~> ~loading)

\* A submission was rejected and the form is idle again, with the file and
\* the fields still there.
C16_Witness ==
    /\ view = "Dashboard"
    /\ message = "Error: No face detected"
    /\ ~loading
    /\ Submitting = 0
    /\ Truthy(file)
    /\ form.name = "Jane Doe"

\* C17: a submission without a file sends nothing; a submission with a file
\* sends the POST /enroll and nothing else; a rejected POST /enroll sends
\* nothing (no re-fetch, no retry); a fulfilled one sends the roster
\* re-fetch; and a roster fetch sent on its own is only ever sent by the
\* step that receives the success response.
C17_ValidateSubmitRefresh ==
    [][ LET only(kind) == Len(issued') = 1 /\ issued'[1].kind = kind IN
        /\ issued' # <<>> => ~EnrollInvalid
        /\ ~only("enroll") => ~(Truthy(file) /\ Enroll)
        /\ issued' # <<>> => ~EnrollFail
        /\ only("persons") <=> EnrollOk ]_vars

\* Submitted and not yet answered: the POST is the only request of the step,
\* the fetches of the mount are answered and no roster fetch is in flight.
C17_Witness ==
    /\ view = "Dashboard"
    /\ Len(issued) = 1
    /\ issued[1].kind = "enroll"
    /\ Submitting = 1
    /\ BagCardinality(pending) = 1
    /\ server = 0

\* C18: in every reachable state the token and the role in memory are the
\* 'token' and 'role' entries of localStorage, which are both present or
\* both absent; a page reload keeps the storage and so restores the session
\* that the last login or logout left.
C18_MemoryEqualsStorage ==
    /\ [](/\ token = localStorage.token
          /\ role = localStorage.role
          /\ (localStorage.token = NULL <=> localStorage.role = NULL))
    /\ [][ (localStorage' # localStorage \/ token' # token \/ role' # role)
               => ~PageLoad ]_vars

\* Reloaded after a login as admin and an enrollment: the session is the
\* stored one, and the default header that only login sets is gone.
C18_Witness ==
    /\ server = 1
    /\ token = "xyz" /\ role = "admin"
    /\ localStorage = [token |-> "xyz", role |-> "admin"]
    /\ Authorization = NULL
    /\ view = "Dashboard"
    /\ message = ""

\* C19: no request to an authenticated endpoint (GET /persons, GET /events,
\* POST /enroll) is issued while the session is logged out.
C19_NoAuthenticatedRequestLoggedOut ==
    \A i \in 1..Len(issued) :
        issued[i].kind \in AuthenticatedKinds => token # NULL

\* C20: the responses owed to a dashboard view that was left never change a
\* dashboard entered later. No continuation that can update a view outlives
\* it; a dashboard entered from the login view starts from the initial
\* local state with only its own two fetches able to update it; and the
\* response to an enrollment of a view that was left changes no roster,
\* events, message, form, file or loading flag.
C20_LeftViewResponsesDropped ==
    /\ [](\A w \in DOMAIN pending :
              w.live => IF w.kind = "token" THEN view = "Login"
                                            ELSE view = "Dashboard")
    /\ [][ (view = "Login" /\ view' = "Dashboard")
               => /\ persons' = <<>> /\ events' = <<>>
                  /\ message' = "" /\ form' = FormDefault
                  /\ file' = NULL /\ ~loading'
                  /\ \A w \in DOMAIN pending' :
                         w.live => /\ w.kind \in {"persons", "events"}
                                   /\ CopiesIn(w, pending') = 1 ]_vars
    /\ [][ \A w \in DOMAIN pending :
               (/\ ~w.live
                /\ \/ \E msg \in ServerMessages : EnrollFulfilled(w, msg)
                   \/ \E detail \in ServerDetails : EnrollRejected(w, detail))
               => /\ persons' = persons /\ events' = events
                  /\ message' = message /\ form' = form
                  /\ file' = file /\ loading' = loading
                  /\ view' = view ]_vars

\* A dashboard entered by a login as admin, while the response to an
\* enrollment submitted on a dashboard that was left is still owed.
C20_Witness ==
    /\ view = "Dashboard"
    /\ token = "xyz"
    /\ Authorization = Bearer("xyz")
    /\ CopiesIn([kind |-> "enroll", live |-> FALSE, lo |-> 0], pending) = 1
    /\ Submitting = 0
    /\ message = ""

====
